---- MODULE Spec2Model ----
(***************************************************************************)
(* A model of the two request handlers of quartapp:                        *)
(*   - chat_handler.response_stream (src/src/quartapp/chat.py:171-232),    *)
(*     the chat assembler and the stream relay;                            *)
(*   - video_upload_handler (src/src/quartapp/chat.py:93-168) with         *)
(*     VideoProcessor._extract_frames_sync and                             *)
(*     AzureBlobStorageHandler (src/src/quartapp/video_handler.py).        *)
(* SpecChat runs one chat request, SpecUpload one upload request.          *)
(***************************************************************************)
EXTENDS Integers, Sequences, FiniteSets, TLC

\* ------------------------------------------------------------------ bounds
\* Longest request message list drawn for a chat request.
MaxMsgs == 2
\* Longest context.frames list drawn (besides the 15-frame scenario).
MaxFrames == 3
\* Largest MAX_FRAMES_PER_REQUEST drawn (besides the default).
MaxFramesCfg == 2
\* Most events one upstream stream delivers.
MaxEvents == 3

\* The bytes one read of the upload asks for: chunk_size, chat.py:117, scaled
\* down from 8192.
chunk_size == 2
\* The size ceiling in bytes: max_size_bytes, chat.py:119, scaled down from
\* MAX_VIDEO_SIZE_MB * 1024 * 1024 to a few chunks and a remainder.
max_size_bytes == 9
\* Largest upload drawn, in bytes: beyond the ceiling by more than a chunk.
MaxPayload == 12
\* Largest native frame rate cv2 reports, and largest target rate configured,
\* both in one common unit.
MaxNativeFps == 4
MaxTargetFps == 3
\* Most frames a video decodes to before its first failed read.
MaxReads == 4
\* Most calls made on one AzureBlobStorageHandler.
MaxCalls == 3

\* int(os.getenv("MAX_FRAMES_PER_REQUEST", "10")), chat.py:194
DefaultMaxFrames == 10
\* The length of the frame list of the spec's truncation scenario.
ScenarioFrames == 15

\* ------------------------------------------------------------------ values
\* Python's None.
None == "None"

Min(a, b) == IF a <= b THEN a ELSE b
Max(a, b) == IF a >= b THEN a ELSE b

\* The data URLs a client can send as context.frames, one per position.
AllFrames ==
  << "f0", "f1", "f2", "f3", "f4", "f5", "f6", "f7",
     "f8", "f9", "f10", "f11", "f12", "f13", "f14", "f15" >>

\* A JSON string value and a JSON list value of a message's "content".
Str(s) == [str |-> s]
List(parts) == [list |-> parts]

\* The i-th message of a request: roles alternate and end with the user's turn.
Message(i, n) ==
  [role |-> IF (n - i) % 2 = 0 THEN "user" ELSE "assistant",
   content |-> Str(<<"m", i>>)]

\* request_json["messages"] of n messages.
Messages(n) == [i \in 1..n |-> Message(i, n)]

\* context.get("file"): absent, an empty string, or a data URL.
Images == {None, "", "img"}

\* One upstream event is the list event_dict["choices"].
Events == { <<>>, <<"c1">>, <<"c2", "c1">> }

\* str(e) of the exceptions the upstream client raises.
ExcMsgs == {"e1", "e2"}

VARIABLES
  request_messages,  \* request_json["messages"]
  image,             \* context.get("file")
  frames,            \* context.get("frames", [])
  max_frames,        \* int(os.getenv("MAX_FRAMES_PER_REQUEST", "10"))
  all_messages,      \* the messages= argument of completions.create
  events,            \* the upstream events pulled so far, in order
  upstream_exc,      \* str(e) of the exception the upstream raised, or None
  out,               \* the lines response_stream has yielded, in order
  chat_pc            \* where response_stream stands

chatVars ==
  << request_messages, image, frames, max_frames, all_messages,
     events, upstream_exc, out, chat_pc >>

VARIABLES
  has_video,         \* 'video' in files
  filename,          \* secure_filename(video_file.filename)
  payload,           \* the number of bytes of the uploaded file
  storage_on,        \* os.getenv("AZURE_STORAGE_ACCOUNT_URL") is set
  fps,               \* VideoProcessor.fps, the target extraction rate
  stream_pos,        \* the bytes of the upload read so far
  chunk,             \* len(chunk) of the last read
  total_size,        \* total_size
  file_bytes,        \* the content of the BytesIO buffer
  file_pos,          \* the position of the BytesIO buffer
  chunk_reads,       \* the video_file.read() calls made
  blob_calls,        \* the upload_video() calls made
  blob_uploads,      \* the upload_blob calls made
  blob_url,          \* blob_url
  temp_created,      \* NamedTemporaryFile has created the file
  temp_content,      \* the content of the temporary file
  unlink_attempts,   \* the Path(temp_path).unlink() calls made
  temp_exists,       \* the temporary file is on disk
  video,             \* what cv2 finds in the temporary file
  worker,            \* the outcome of _extract_frames_sync
  response,          \* the handler's response
  upl_pc             \* where video_upload_handler stands

uploadVars ==
  << has_video, filename, payload, storage_on, fps, stream_pos, chunk, total_size,
     file_bytes, file_pos, chunk_reads, blob_calls, blob_uploads, blob_url, temp_created, temp_content,
     unlink_attempts, temp_exists, video, worker, response, upl_pc >>

VARIABLES
  account_url,          \* AzureBlobStorageHandler.account_url is set
  blob_service_client,  \* the handler's client: 0 for None, else the client's number
  clients_created,      \* the BlobServiceClient(...) constructions made
  client_closes,        \* per client, the close() calls it has received
  calls                 \* the calls made on the handler, each with its position

blobVars ==
  << account_url, blob_service_client, clients_created, client_closes, calls >>

vars == << chatVars, uploadVars, blobVars >>

\* The storage handler of a run that makes no call on it.
BlobIdle ==
  /\ account_url = FALSE
  /\ blob_service_client = 0
  /\ clients_created = 0
  /\ client_closes = <<>>
  /\ calls = <<>>

\* No response yet.
NoResponse == [status |-> 0]

\* No video handed to cv2 yet, and no outcome of the worker yet.
NoVideo == [opened |-> FALSE, video_fps |-> 0, reads |-> <<>>]
NoOutcome == [ran |-> FALSE]

\* The upload request of a run that serves a chat request only.
UploadIdle ==
  /\ has_video = FALSE
  /\ filename = ""
  /\ payload = 0
  /\ storage_on = FALSE
  /\ fps = 1
  /\ stream_pos = 0
  /\ chunk = 0
  /\ total_size = 0
  /\ file_bytes = <<>>
  /\ file_pos = 0
  /\ chunk_reads = 0
  /\ blob_calls = 0
  /\ blob_uploads = 0
  /\ blob_url = None
  /\ temp_created = FALSE
  /\ temp_content = <<>>
  /\ unlink_attempts = 0
  /\ temp_exists = FALSE
  /\ video = NoVideo
  /\ worker = NoOutcome
  /\ response = NoResponse
  /\ upl_pc = "idle"

\* The chat request of a run that serves an upload request only.
ChatIdle ==
  /\ request_messages = <<>>
  /\ image = None
  /\ frames = <<>>
  /\ max_frames = DefaultMaxFrames
  /\ all_messages = <<>>
  /\ events = <<>>
  /\ upstream_exc = None
  /\ out = <<>>
  /\ chat_pc = "idle"

\* ------------------------------------------------------- chat assembler
\* A slip of the history: the system prompt of chat.py:184-186 kept in front.
WithSystemPrompt(s) ==
  << [role |-> "system", content |-> Str("You are a helpful assistant.")] >>
    \o (IF Len(s) = 0 THEN <<>> ELSE SubSeq(s, 1, Len(s) - 1))

\* chat.py:187, request_messages[0:-1]: a new list of all but the last
\* element, [] for an empty list. It replaces the list of chat.py:184-186
\* that began with the system prompt.
AllButLast(s) == IF Len(s) = 0 THEN <<>> ELSE SubSeq(s, 1, Len(s) - 1)

\* A slip of the slice: s[-m:], the last m elements instead of the first.
SliceLast(s, m) == SubSeq(s, Len(s) - Min(Max(m, 0), Len(s)) + 1, Len(s))

\* Python's s[:m] for an integer m of either sign.
SliceTo(s, m) ==
  IF m >= 0 THEN SubSeq(s, 1, Min(m, Len(s)))
            ELSE SubSeq(s, 1, Max(0, Len(s) + m))

\* {"text": ..., "type": "text"}
TextPart(t) == [text |-> t, type |-> "text"]

\* {"type": "image_url", "image_url": {"url": ..., "detail": "auto"}}
ImagePart(u) == [type |-> "image_url", image_url |-> [url |-> u, detail |-> "auto"]]

\* A slip of the branch order: the single image tested before the frames.
BranchImageFirst(fr, img) ==
  IF img # None /\ img # "" THEN "image"
  ELSE IF fr # <<>> THEN "frames"
  ELSE "text"

\* The branch of the if/elif/else at chat.py:189-214: Python truthiness of
\* frames (a non-empty list) and of image (neither None nor "").
Branch(fr, img) ==
  IF fr # <<>> THEN "frames"
  ELSE IF img # None /\ img # "" THEN "image"
  ELSE "text"

\* user_content of the frames branch, chat.py:191-201.
FramesContent(last, fr, m) ==
  <<TextPart(last.content)>>
    \o [i \in 1..Len(SliceTo(fr, m)) |-> ImagePart(SliceTo(fr, m)[i])]

\* user_content of the single-image branch, chat.py:208-210.
ImageContent(last, img) == <<TextPart(last.content), ImagePart(img)>>

\* The turn appended to all_messages, chat.py:189-214.
FinalTurn(msgs, fr, img, m) ==
  LET last == msgs[Len(msgs)]
  IN CASE Branch(fr, img) = "frames" ->
            [role |-> "user", content |-> List(FramesContent(last, fr, m))]
       [] Branch(fr, img) = "image" ->
            [role |-> "user", content |-> List(ImageContent(last, img))]
       [] OTHER -> last

\* ---------------------------------------------------------- stream relay
\* json.dumps(event_dict["choices"][0]) + "\n"
ChoiceLine(c) == [choice |-> c]

\* json.dumps({"error": str(e)}) + "\n"
ErrorLine(m) == [error |-> m]

\* A slip of the loop body: one line per choice of the event.
EventLinesAll(choices) == [i \in 1..Len(choices) |-> ChoiceLine(choices[i])]

\* The lines the loop body yields for one event, chat.py:225-227.
EventLines(choices) ==
  IF choices # <<>> THEN <<ChoiceLine(choices[1])>> ELSE <<>>

\* A slip of the except clause: the exception is logged and nothing is yielded.
ExceptLinesSilent(m) == <<>>

\* The lines the except clause yields for an exception, chat.py:228-230.
ExceptLines(m) == <<ErrorLine(m)>>

InitChat ==
  /\ \E n \in 0..MaxMsgs : request_messages = Messages(n)
  /\ image \in Images
  /\ \E l \in (0..MaxFrames) \cup {ScenarioFrames} : frames = SubSeq(AllFrames, 1, l)
  /\ max_frames \in (0..MaxFramesCfg) \cup {DefaultMaxFrames}
  /\ all_messages = <<>>
  /\ events = <<>>
  /\ upstream_exc = None
  /\ out = <<>>
  /\ chat_pc = "start"
  /\ UploadIdle
  /\ BlobIdle

\* chat.py:184-222: build all_messages and create the completion coroutine.
\* request_messages[-1] raises IndexError on an empty list, outside the try.
Assemble ==
  /\ chat_pc = "start"
  /\ IF Len(request_messages) = 0
       THEN /\ chat_pc' = "raised"
            /\ all_messages' = AllButLast(request_messages)
       ELSE /\ chat_pc' = "created"
            /\ all_messages' =
                 Append(AllButLast(request_messages),
                        FinalTurn(request_messages, frames, image, max_frames))
  /\ UNCHANGED << uploadVars, blobVars, request_messages, image, frames, max_frames, events, upstream_exc, out >>

\* chat.py:224, `await chat_coroutine` returns the stream.
AwaitCreateOk ==
  /\ chat_pc = "created"
  /\ chat_pc' = "iter"
  /\ UNCHANGED << uploadVars, blobVars, request_messages, image, frames, max_frames, all_messages,
                  events, upstream_exc, out >>

\* chat.py:224 and 228-230, `await chat_coroutine` raises: the except clause
\* yields the error line.
AwaitCreateRaise ==
  /\ chat_pc = "created"
  /\ \E m \in ExcMsgs :
       /\ upstream_exc' = m
       /\ out' = out \o ExceptLines(m)
  /\ chat_pc' = "error_yielded"
  /\ UNCHANGED << uploadVars, blobVars, request_messages, image, frames, max_frames, all_messages, events >>

\* chat.py:224-227, the stream delivers an event: the loop body runs up to
\* its yield, or back to the next pull when the event has no choice.
PullEvent ==
  /\ chat_pc = "iter"
  /\ Len(events) < MaxEvents
  /\ \E ev \in Events :
       /\ events' = Append(events, ev)
       /\ out' = out \o EventLines(ev)
       /\ chat_pc' = IF EventLines(ev) # <<>> THEN "suspended" ELSE "iter"
  /\ UNCHANGED << uploadVars, blobVars, request_messages, image, frames, max_frames, all_messages, upstream_exc >>

\* chat.py:224, the stream ends (StopAsyncIteration): the generator returns.
PullEnd ==
  /\ chat_pc = "iter"
  /\ chat_pc' = "done"
  /\ UNCHANGED << uploadVars, blobVars, request_messages, image, frames, max_frames, all_messages,
                  events, upstream_exc, out >>

\* chat.py:224 and 228-230, the iteration raises: the except clause yields
\* the error line.
PullRaise ==
  /\ chat_pc = "iter"
  /\ \E m \in ExcMsgs :
       /\ upstream_exc' = m
       /\ out' = out \o ExceptLines(m)
  /\ chat_pc' = "error_yielded"
  /\ UNCHANGED << uploadVars, blobVars, request_messages, image, frames, max_frames, all_messages, events >>

\* chat.py:227, the consumer asks for the next line: the loop pulls again.
Resume ==
  /\ chat_pc = "suspended"
  /\ chat_pc' = "iter"
  /\ UNCHANGED << uploadVars, blobVars, request_messages, image, frames, max_frames, all_messages,
                  events, upstream_exc, out >>

\* chat.py:230, the consumer asks for the line after the error line: the
\* generator falls off its end.
ResumeAfterError ==
  /\ chat_pc = "error_yielded"
  /\ chat_pc' = "done"
  /\ UNCHANGED << uploadVars, blobVars, request_messages, image, frames, max_frames, all_messages,
                  events, upstream_exc, out >>

\* What the consumer's going away raises in the generator: GeneratorExit at
\* a yield (chat.py:227 and 230), where the generator is closed, and
\* CancelledError at an await (chat.py:224), where the task is cancelled.
Thrown(pc) ==
  IF pc \in {"suspended", "error_yielded"} THEN "GeneratorExit" ELSE "CancelledError"

\* Python's exception hierarchy: GeneratorExit and asyncio.CancelledError
\* derive from BaseException, not from Exception.
BaseClass(e) ==
  IF e \in {"GeneratorExit", "CancelledError"} THEN "BaseException" ELSE "Exception"

\* A slip of the except clause: a bare except, which catches everything.
CatchesAll(e) == TRUE

\* chat.py:228, `except Exception as e`.
Catches(e) == BaseClass(e) = "Exception"

\* chat.py:223-230, the consumer closes or cancels the response while the
\* generator is at an await or a yield: the exception raised there goes
\* through the try statement, whose except clause yields the error line for
\* what it catches, and the generator ends. The yield of the error line is in
\* the except clause itself, outside the try body.
ClientDisconnect ==
  /\ chat_pc \in {"created", "iter", "suspended", "error_yielded"}
  /\ out' = IF chat_pc # "error_yielded" /\ Catches(Thrown(chat_pc))
              THEN out \o ExceptLines(Thrown(chat_pc))
              ELSE out
  /\ chat_pc' = "closed"
  /\ UNCHANGED << uploadVars, blobVars, request_messages, image, frames, max_frames, all_messages,
                  events, upstream_exc >>

NextChat ==
  \/ Assemble
  \/ AwaitCreateOk
  \/ AwaitCreateRaise
  \/ PullEvent
  \/ PullEnd
  \/ PullRaise
  \/ Resume
  \/ ResumeAfterError
  \/ ClientDisconnect

SpecChat == InitChat /\ [][NextChat]_vars

\* ------------------------------------------------- properties of the relay
\* The choice lines a sequence of upstream events calls for: the first choice
\* of every event that carries one, in the order of the events.
RECURSIVE ExpectedChoiceLines(_)
ExpectedChoiceLines(evs) ==
  IF evs = <<>> THEN <<>>
  ELSE LET rest == ExpectedChoiceLines(SubSeq(evs, 1, Len(evs) - 1))
           ev == evs[Len(evs)]
       IN IF Len(ev) >= 1 THEN Append(rest, [choice |-> ev[1]]) ELSE rest

\* C1: once the upstream has raised (at the await of the call or during the
\* iteration), the output is exactly the choice lines of the events delivered
\* before, in order, followed by exactly one error line carrying the message;
\* the generator is then at the error line's yield or finished (closed there
\* by a consumer that went away, or run to its end), so no line follows and
\* no exception has escaped it.
C1_ErrorLineTerminal ==
  upstream_exc # None =>
    /\ chat_pc \in {"error_yielded", "done", "closed"}
    /\ out = ExpectedChoiceLines(events) \o << [error |-> upstream_exc] >>

\* C1 witness: the upstream raised after two events with a choice and the
\* generator has finished.
C1_Witness ==
  /\ chat_pc = "done"
  /\ upstream_exc # None
  /\ Len(ExpectedChoiceLines(events)) = 2
  /\ Len(out) = 3

\* C2: as long as the upstream has not raised, the output is exactly one
\* choice line per pulled event that carries a choice, none for an event with
\* an empty choice list, in the order of the events; this holds in every
\* state, so a line is out before the next event is pulled, and no error line
\* is among them.
C2_OneLinePerChoiceEvent ==
  upstream_exc = None =>
    /\ out = ExpectedChoiceLines(events)
    /\ \A i \in 1..Len(out) : DOMAIN out[i] = {"choice"}
    /\ chat_pc = "suspended" => Len(events) >= 1 /\ Len(events[Len(events)]) >= 1

\* C2 witness: a stream of a choice event, an empty event and a two-choice
\* event has completed without raising.
C2_Witness ==
  /\ chat_pc = "done"
  /\ upstream_exc = None
  /\ events = << <<"c1">>, <<>>, <<"c2", "c1">> >>

\* ---------------------------------------------- properties of the assembler
\* The assembled final user turn, once all_messages is built.
Assembled == chat_pc \notin {"start", "raised"}
FinalUserTurn == all_messages[Len(all_messages)]
PendingTurn == request_messages[Len(request_messages)]
IsList(content) == DOMAIN content = {"list"}
ImageIndexes(parts) == {i \in 1..Len(parts) : parts[i].type = "image_url"}
Truthy(img) == img # None /\ img # ""

\* C9: with a non-empty frame sequence of length L and maxFramesPerRequest M,
\* the final user turn holds exactly min(L, M) image parts, the i-th of them
\* carrying frame i of the input; with L = 15 and M = 10 they are frames 0-9.
C9_FramesTruncated ==
  (Assembled /\ frames # <<>>) =>
    /\ IsList(FinalUserTurn.content)
    /\ LET parts == FinalUserTurn.content.list
           k == Min(Len(frames), max_frames)
       IN /\ Cardinality(ImageIndexes(parts)) = k
          /\ ImageIndexes(parts) = 2..(k + 1)
          /\ \A i \in 1..k : parts[i + 1].image_url.url = frames[i]
          /\ (Len(frames) = ScenarioFrames /\ max_frames = DefaultMaxFrames) =>
               [i \in 1..k |-> parts[i + 1].image_url.url]
                 = << "f0", "f1", "f2", "f3", "f4", "f5", "f6", "f7", "f8", "f9" >>

\* C9 witness: the scenario's request, 15 frames under a maximum of 10, has
\* been assembled.
C9_Witness ==
  /\ Assembled
  /\ Len(frames) = 15
  /\ max_frames = 10

\* C10: the final user turn follows exactly one of three rules in priority
\* order: with a non-empty frame sequence, the text part followed only by
\* image parts of frames, the single image never attached; else with a single
\* image, exactly the text part then the image part; else the pending turn
\* itself, unchanged.
C10_ThreeRules ==
  Assembled =>
    IF frames # <<>>
      THEN /\ FinalUserTurn.role = "user"
           /\ IsList(FinalUserTurn.content)
           /\ LET parts == FinalUserTurn.content.list
              IN /\ Len(parts) >= 1
                 /\ parts[1] = [text |-> PendingTurn.content, type |-> "text"]
                 /\ \A i \in 2..Len(parts) :
                      /\ parts[i].type = "image_url"
                      /\ \E j \in 1..Len(frames) : parts[i].image_url.url = frames[j]
                      /\ parts[i].image_url.url # image
    ELSE IF Truthy(image)
      THEN /\ FinalUserTurn.role = "user"
           /\ IsList(FinalUserTurn.content)
           /\ FinalUserTurn.content.list =
                << [text |-> PendingTurn.content, type |-> "text"],
                   [type |-> "image_url",
                    image_url |-> [url |-> image, detail |-> "auto"]] >>
    ELSE FinalUserTurn = PendingTurn

\* C10 witness: a request carrying both a frame sequence and a single image
\* has been assembled.
C10_Witness ==
  /\ Assembled
  /\ frames # <<>>
  /\ image = "img"
  /\ max_frames >= 1

\* C10 second case reached too: a single image and no frames.
C10_ImageCase ==
  Assembled /\ frames = <<>> /\ image = "img"

C15_NoLineAfterDisconnect ==
  [][ /\ (chat_pc' = "closed" /\ Len(out) >= 1) =>
           /\ out' = out
           /\ events' = events
           /\ upstream_exc' = upstream_exc
      /\ chat_pc = "closed" =>
           /\ chat_pc' = "closed"
           /\ out' = out
           /\ events' = events ]_vars

\* C15 witness: the consumer went away after two choice lines, while the
\* upstream had raised nothing.
C15_Witness ==
  /\ chat_pc = "closed"
  /\ Len(out) = 2
  /\ Len(events) >= 2
  /\ upstream_exc = None

\* ============================================================ the upload
\* A slip of the allow-list: another container format let through.
AllowedWithAvi == {".mp4", ".avi"}

\* ALLOWED_VIDEO_EXTENSIONS, chat.py:25
ALLOWED_VIDEO_EXTENSIONS == {".mp4"}

\* The sanitized filenames drawn for an upload.
Filenames == {"clip.mp4", "clip.MP4", "clip.avi", "clip"}

\* Path(filename).suffix
Suffix(f) ==
  CASE f = "clip.mp4" -> ".mp4"
    [] f = "clip.MP4" -> ".MP4"
    [] f = "clip.avi" -> ".avi"
    [] OTHER -> ""

\* str.lower() on the suffixes drawn.
Lower(x) == IF x = ".MP4" THEN ".mp4" ELSE x

\* The bytes of the upload after the first a and up to the b-th; a byte is
\* named by its offset in the upload.
Bytes(a, b) == [i \in 1..(b - a) |-> a + i]

\* len(chunk) of one `await video_file.read(chunk_size)`: empty only at the
\* end of the stream, else at most chunk_size bytes.
ReadSizes(remaining) ==
  IF remaining = 0 THEN {0} ELSE 1..Min(chunk_size, remaining)

\* A slip of the size check: >= instead of >.
TooLargeOrEqual(total) == total >= max_size_bytes

\* chat.py:126, total_size > max_size_bytes
TooLarge(total) == total > max_size_bytes

\* A slip of the loop body: the chunk is written before the size is checked.
BufferedBeforeCheck(buf, ch, total) == buf \o ch

\* chat.py:126-128, the buffer after a chunk has been read: the chunk is
\* written only when the size check lets it pass.
Buffered(buf, ch, total) == IF TooLarge(total) THEN buf ELSE buf \o ch

\* ------------------------------------------------------- frame sampler
\* video_handler.py:63, int(video_fps / self.fps) if video_fps > 0 else 1;
\* int() truncates the quotient of two positive rates.
FrameInterval(video_fps, t) == IF video_fps > 0 THEN video_fps \div t ELSE 1

\* A slip of the selection: the count tested after its increment.
SelectedAfterIncrement(frame_count, frame_interval) ==
  (frame_count + 1) % frame_interval = 0

\* video_handler.py:76, frame_count % frame_interval == 0
Selected(frame_count, frame_interval) == frame_count % frame_interval = 0

\* video_handler.py:78-80, the data URL of the frame decoded at an index.
DataUrl(index) == << "data:image/jpeg;base64", index >>

\* video_handler.py:70-83, the decode loop from frame_count on; reads[i] is
\* the ret of the i-th cap.read(), and a read past the script fails. With
\* frame_interval = 0 the modulo raises ZeroDivisionError at the first frame.
RECURSIVE Decode(_, _, _, _)
Decode(reads, frame_count, frame_interval, acc) ==
  IF frame_count + 1 > Len(reads) \/ ~reads[frame_count + 1]
    THEN [exc |-> None, frames |-> acc,
          frame_count |-> frame_count, read_calls |-> frame_count + 1]
  ELSE IF frame_interval = 0
    THEN [exc |-> "ZeroDivisionError", frames |-> <<>>,
          frame_count |-> frame_count, read_calls |-> frame_count + 1]
  ELSE Decode(reads, frame_count + 1, frame_interval,
              IF Selected(frame_count, frame_interval)
                THEN Append(acc, DataUrl(frame_count)) ELSE acc)

\* video_handler.py:49-92, _extract_frames_sync: the exception it raises or
\* the frames it returns. interval is -1 when the video did not open.
ExtractFramesSync(v, t) ==
  IF ~v.opened
    THEN [ran |-> TRUE, exc |-> "ValueError", frames |-> <<>>,
          frame_count |-> 0, read_calls |-> 0, interval |-> -1]
    ELSE LET k == FrameInterval(v.video_fps, t)
             d == Decode(v.reads, 0, k, <<>>)
         IN [ran |-> TRUE, exc |-> d.exc, frames |-> d.frames,
             frame_count |-> d.frame_count, read_calls |-> d.read_calls,
             interval |-> k]

\* n frames that decode, then the end of the stream or, with tail, a failed
\* read with one more decodable frame behind it.
Script(n, tail) ==
  [i \in 1..n |-> TRUE] \o (IF tail THEN << FALSE, TRUE >> ELSE <<>>)

\* What cv2 can find in the temporary file.
Videos ==
  {NoVideo} \cup
  { [opened |-> TRUE, video_fps |-> r, reads |-> Script(n, tl)] :
      r \in 0..MaxNativeFps, n \in 0..MaxReads, tl \in BOOLEAN }

\* A slip of the emptiness test: an empty list is returned as a success.
NoFramesNever(fr) == FALSE

\* chat.py:148, `not frames_base64`
NoFrames(fr) == fr = <<>>

\* chat.py:146-157 and 166-168, the response after extract_frames.
ResponseFor(w, url, name) ==
  IF w.exc # None
    THEN [status |-> 500, error |-> w.exc]
  ELSE IF NoFrames(w.frames)
    THEN [status |-> 422, error |-> "No frames could be extracted from video"]
  ELSE [status |-> 200, success |-> TRUE, frames |-> w.frames,
        frame_count |-> Len(w.frames), blob_url |-> url, filename |-> name]

\* A slip of the cleanup: a failed unlink is answered with an error.
AfterCleanupEscalated(resp, unlink_ok) ==
  IF unlink_ok THEN resp ELSE [status |-> 500, error |-> "unlink"]

\* chat.py:159-164, the finally clause: an exception of unlink is caught and
\* logged, and the response stands.
AfterCleanup(resp, unlink_ok) == resp

InitUpload ==
  /\ has_video \in BOOLEAN
  /\ filename \in (IF has_video THEN Filenames ELSE {""})
  /\ payload \in 0..MaxPayload
  /\ storage_on \in BOOLEAN
  /\ fps \in 1..MaxTargetFps
  /\ stream_pos = 0
  /\ chunk = 0
  /\ total_size = 0
  /\ file_bytes = <<>>
  /\ file_pos = 0
  /\ chunk_reads = 0
  /\ blob_calls = 0
  /\ blob_uploads = 0
  /\ blob_url = None
  /\ temp_created = FALSE
  /\ temp_content = <<>>
  /\ unlink_attempts = 0
  /\ temp_exists = FALSE
  /\ video = NoVideo
  /\ worker = NoOutcome
  /\ response = NoResponse
  /\ upl_pc = "start"
  /\ ChatIdle
  /\ BlobIdle

\* chat.py:102-119: the file and its extension are validated.
UploadValidate ==
  /\ upl_pc = "start"
  /\ IF ~has_video
       THEN /\ response' = [status |-> 400, error |-> "No video file provided"]
            /\ upl_pc' = "responded"
     ELSE IF Lower(Suffix(filename)) \notin ALLOWED_VIDEO_EXTENSIONS
       THEN /\ response' = [status |-> 400, error |-> "Invalid file type"]
            /\ upl_pc' = "responded"
     ELSE /\ response' = response
          /\ upl_pc' = "reading"
  /\ UNCHANGED << chatVars, blobVars, chunk_reads, blob_calls, has_video, filename, payload, storage_on, fps, stream_pos,
                  chunk, total_size, file_bytes, file_pos, blob_uploads, blob_url,
                  temp_created, temp_content, unlink_attempts, temp_exists, video,
                  worker >>

\* chat.py:121-131: one pass of the read loop. An empty chunk ends the loop
\* and the buffer is rewound; else the total grows, the size is checked and
\* the chunk is written or the request is answered 413.
ReadChunk ==
  /\ upl_pc = "reading"
  /\ chunk_reads' = chunk_reads + 1
  /\ \E n \in ReadSizes(payload - stream_pos) :
       /\ stream_pos' = stream_pos + n
       /\ chunk' = n
       /\ IF n = 0
            THEN /\ total_size' = total_size
                 /\ file_bytes' = file_bytes
                 /\ file_pos' = 0
                 /\ response' = response
                 /\ upl_pc' = IF storage_on THEN "blob" ELSE "temp"
            ELSE /\ total_size' = total_size + n
                 /\ file_bytes' =
                      Buffered(file_bytes, Bytes(stream_pos, stream_pos + n),
                               total_size + n)
                 /\ file_pos' = Len(file_bytes')
                 /\ IF TooLarge(total_size + n)
                      THEN /\ response' = [status |-> 413, error |-> "File too large"]
                           /\ upl_pc' = "responded"
                      ELSE /\ response' = response
                           /\ upl_pc' = "reading"
  /\ UNCHANGED << chatVars, blobVars, blob_calls, has_video, filename, payload, storage_on, fps,
                  blob_uploads, blob_url, temp_created, temp_content,
                  unlink_attempts, temp_exists, video, worker >>

\* A slip of the error path: a failed upload is tried again.
AfterBlobFailureRetry == "blob"

\* video_handler.py:176-178 and chat.py:166-168: a failed upload_blob is
\* logged and raised again, and the handler's except clause answers.
AfterBlobFailure == "responded"

\* A slip after the upload: the buffer is left where the store stopped reading.
NoRewind(pos) == pos

\* chat.py:137, file_bytes.seek(0) after the upload.
Rewind(pos) == 0

\* chat.py:135-136 and video_handler.py:149-171: the handler calls
\* upload_video once, which finds the client made at startup (the same
\* environment variable guards both), names the blob and invokes upload_blob
\* on the buffer; the handler suspends.
BlobCall ==
  /\ upl_pc = "blob"
  /\ blob_calls' = blob_calls + 1
  /\ blob_uploads' = blob_uploads + 1
  /\ upl_pc' = "blob_uploading"
  /\ UNCHANGED << chatVars, blobVars, chunk_reads, has_video, filename, payload,
                  storage_on, fps, stream_pos, chunk, total_size, file_bytes,
                  file_pos, blob_url, temp_created, temp_content, unlink_attempts,
                  temp_exists, video, worker, response >>

\* video_handler.py:164-178 and chat.py:136-137: upload_blob returns, having
\* read the buffer to its end, and the handler rewinds the buffer; or it
\* raises, having read some of it.
BlobReturn ==
  /\ upl_pc = "blob_uploading"
  /\ \E ok \in BOOLEAN :
       IF ok
         THEN /\ blob_url' = "url"
              /\ file_pos' = Rewind(Len(file_bytes))
              /\ response' = response
              /\ upl_pc' = "temp"
         ELSE /\ blob_url' = blob_url
              /\ file_pos' \in 0..Len(file_bytes)
              /\ response' = IF AfterBlobFailure = "responded"
                               THEN [status |-> 500, error |-> "upload_blob"]
                               ELSE response
              /\ upl_pc' = AfterBlobFailure
  /\ UNCHANGED << chatVars, blobVars, chunk_reads, blob_calls, blob_uploads,
                  has_video, filename, payload, storage_on, fps, stream_pos, chunk,
                  total_size, file_bytes, temp_created, temp_content,
                  unlink_attempts, temp_exists, video, worker >>

\* chat.py:140-142: the temporary file is created (delete=False) and the
\* rest of the buffer written to it. Creating the file or writing to it can
\* raise OSError, which the outer except answers with 500.
WriteTemp ==
  /\ upl_pc = "temp"
  /\ \E outcome \in {"ok", "create_raises", "write_raises"} :
       /\ temp_created' = (outcome # "create_raises")
       /\ temp_exists' = (outcome # "create_raises")
       /\ temp_content' =
            IF outcome = "ok"
              THEN SubSeq(file_bytes, file_pos + 1, Len(file_bytes))
              ELSE <<>>
       /\ file_pos' = IF outcome = "create_raises" THEN file_pos ELSE Len(file_bytes)
       /\ IF outcome = "ok"
            THEN /\ response' = response
                 /\ upl_pc' = "extract"
            ELSE /\ response' = [status |-> 500, error |-> "OSError"]
                 /\ upl_pc' = "responded"
  /\ UNCHANGED << chatVars, blobVars, chunk_reads, blob_calls, has_video, filename, payload, storage_on, fps, stream_pos,
                  chunk, total_size, file_bytes, blob_uploads, blob_url,
                  unlink_attempts, video, worker >>

\* chat.py:146 and video_handler.py:46-47: _extract_frames_sync is handed to
\* the executor and the handler suspends. cv2 opens no empty file.
ExtractSubmit ==
  /\ upl_pc = "extract"
  /\ \E v \in Videos :
       /\ temp_content = <<>> => ~v.opened
       /\ video' = v
  /\ upl_pc' = "extracting"
  /\ UNCHANGED << chatVars, blobVars, chunk_reads, blob_calls, has_video, filename, payload, storage_on, fps, stream_pos,
                  chunk, total_size, file_bytes, file_pos, blob_uploads, blob_url,
                  temp_created, temp_content, unlink_attempts, temp_exists,
                  worker, response >>

\* video_handler.py:49-92: the worker runs _extract_frames_sync to its end.
WorkerRun ==
  /\ upl_pc = "extracting"
  /\ worker' = ExtractFramesSync(video, fps)
  /\ upl_pc' = "worker_done"
  /\ UNCHANGED << chatVars, blobVars, chunk_reads, blob_calls, has_video, filename, payload, storage_on, fps, stream_pos,
                  chunk, total_size, file_bytes, file_pos, blob_uploads, blob_url,
                  temp_created, temp_content, unlink_attempts, temp_exists,
                  video, response >>

\* chat.py:146-168: the handler resumes with the worker's result or its
\* exception, builds the response, and the finally clause unlinks the
\* temporary file; an exception of unlink is logged and dropped.
ExtractResume ==
  /\ upl_pc = "worker_done"
  /\ unlink_attempts' = unlink_attempts + 1
  /\ \E unlink_ok \in BOOLEAN :
       /\ temp_exists' = ~unlink_ok
       /\ response' = AfterCleanup(ResponseFor(worker, blob_url, filename), unlink_ok)
  /\ upl_pc' = "responded"
  /\ UNCHANGED << chatVars, blobVars, chunk_reads, blob_calls, has_video, filename, payload, storage_on, fps, stream_pos,
                  chunk, total_size, file_bytes, file_pos, blob_uploads, blob_url,
                  temp_created, temp_content, video, worker >>

NextUpload ==
  \/ UploadValidate
  \/ ReadChunk
  \/ BlobCall
  \/ BlobReturn
  \/ WriteTemp
  \/ ExtractSubmit
  \/ WorkerRun
  \/ ExtractResume

SpecUpload == InitUpload /\ [][NextUpload]_vars

\* --------------------------------------------- properties of the upload guard
\* The request passed the validation of file and extension.
Valid == has_video /\ Lower(Suffix(filename)) \in ALLOWED_VIDEO_EXTENSIONS

\* C3: the size check runs with every chunk read: while reading, all bytes
\* read are counted and buffered; the request is answered 413 at the first
\* chunk that takes the total strictly above the ceiling, that chunk is not
\* in the buffer and nothing is read after it, so the buffer never holds more
\* than the ceiling; an upload of at most the ceiling, the ceiling itself
\* included, is never answered 413 and is buffered whole.
C3_SizeCheckedPerChunk ==
  /\ Len(file_bytes) <= max_size_bytes
  /\ upl_pc = "reading" => (total_size = stream_pos /\ Len(file_bytes) = total_size)
  /\ response.status = 413 =>
       /\ total_size > max_size_bytes
       /\ total_size - chunk <= max_size_bytes
       /\ file_bytes = Bytes(0, total_size - chunk)
       /\ stream_pos = total_size
       /\ upl_pc = "responded"
  /\ (Valid /\ payload <= max_size_bytes) =>
       /\ response.status # 413
       /\ upl_pc \notin {"start", "reading"} => file_bytes = Bytes(0, payload)
  /\ (Valid /\ payload > max_size_bytes /\ upl_pc \notin {"start", "reading"}) =>
       response.status = 413

\* C3 witness: a full chunk took the total above the ceiling and the request
\* was answered 413 with the earlier chunks in the buffer.
C3_Witness ==
  /\ response.status = 413
  /\ chunk = chunk_size
  /\ Len(file_bytes) = max_size_bytes - 1

\* C3, the boundary: an upload of exactly the ceiling was read whole.
C3_ExactCeilingAccepted ==
  /\ payload = max_size_bytes
  /\ upl_pc = "extract"
  /\ Len(temp_content) = max_size_bytes

\* C4 as stated: the bytes buffered when the guard rejects are within a small
\* multiple (twice) of the chunk size, whatever the ceiling.
C4_BufferWithinTwoChunks ==
  response.status = 413 => Len(file_bytes) <= 2 * chunk_size

\* C4 amended: the bytes buffered when the guard rejects are bounded by the
\* ceiling, not by the chunk size: they are more than the ceiling less one
\* chunk and at most the ceiling, and the bytes read are at most the ceiling
\* plus one chunk, whatever the size of the upload.
C4_BufferBoundedByCeiling ==
  response.status = 413 =>
    /\ Len(file_bytes) <= max_size_bytes
    /\ Len(file_bytes) > max_size_bytes - chunk_size
    /\ stream_pos <= max_size_bytes + chunk_size

\* C4 witness: the largest upload drawn was rejected with more than two
\* chunks in the buffer.
C4_Witness ==
  /\ response.status = 413
  /\ payload = MaxPayload
  /\ Len(file_bytes) > 2 * chunk_size

\* C5 as stated: once the handler has returned, every temporary file it
\* created has had its removal attempted.
C5_TempFileRemovalAttempted ==
  (upl_pc = "responded" /\ temp_created) => unlink_attempts >= 1

\* ------------------------------------------- properties of the frame sampler
\* round(r / t) of two positive rates, halves to the even neighbour as
\* Python's round().
Round(r, t) ==
  LET q == r \div t
      twice == 2 * (r % t)
  IN IF twice < t THEN q
     ELSE IF twice > t THEN q + 1
     ELSE IF q % 2 = 0 THEN q ELSE q + 1

\* The frames a video decodes to: the reads before the first failed one.
DecodableFrames(reads) ==
  CHOOSE n \in 0..Len(reads) :
    /\ \A i \in 1..n : reads[i]
    /\ n = Len(reads) \/ ~reads[n + 1]

CeilDiv(n, k) == (n + k - 1) \div k

\* C6 as stated: the sampling interval of an opened video is 1 when the
\* native rate is unavailable or zero, and otherwise round(r / t) clamped to
\* a minimum of 1, so never 0.
C6_IntervalRoundedAndClamped ==
  (worker.ran /\ video.opened) =>
    worker.interval =
      IF video.video_fps = 0 THEN 1 ELSE Max(1, Round(video.video_fps, fps))

\* C6, the part of it that holds: interval 1 for a native rate of zero.
C6_ZeroRateTakesEveryFrame ==
  (worker.ran /\ video.opened /\ video.video_fps = 0) => worker.interval = 1

\* C7: for a video that decodes to N frames and an interval k >= 1 the
\* sampler returns exactly ceil(N / k) frames, those decoded at the indexes
\* 0, k, 2k, ... in increasing order, and it stops reading at the first
\* failed read.
C7_EveryKthFrame ==
  (worker.ran /\ video.opened /\ worker.interval >= 1) =>
    LET k == worker.interval
        n == DecodableFrames(video.reads)
    IN /\ worker.exc = None
       /\ Len(worker.frames) = CeilDiv(n, k)
       /\ worker.frames =
            [j \in 1..CeilDiv(n, k) |-> << "data:image/jpeg;base64", (j - 1) * k >>]
       /\ worker.frame_count = n
       /\ worker.read_calls = n + 1

\* C7 witness: three frames decode before a failed read with a decodable
\* frame behind it, and the interval is 2.
C7_Witness ==
  /\ upl_pc = "worker_done"
  /\ video.opened
  /\ worker.interval = 2
  /\ video.reads = << TRUE, TRUE, TRUE, FALSE, TRUE >>

\* C8: a 200 response carries a non-empty frame list whose length is its
\* frame_count; an opened video that decodes to no frame is answered 422 and
\* a video that cannot be opened 500 with the error, never 200.
C8_NoEmptySuccess ==
  /\ response.status = 200 =>
       /\ response.frames # <<>>
       /\ response.frame_count = Len(response.frames)
       /\ response.frames = worker.frames
  /\ (upl_pc = "responded" /\ worker.ran /\ video.opened
        /\ DecodableFrames(video.reads) = 0) =>
       response.status = 422
  /\ (upl_pc = "responded" /\ worker.ran /\ ~video.opened) =>
       response = [status |-> 500, error |-> "ValueError"]

\* C8 witness: an opened video yielded no frame and the request was answered
\* 422.
C8_Witness ==
  /\ upl_pc = "responded"
  /\ worker.ran
  /\ video.opened
  /\ response.status = 422

\* ================================================= the blob storage handler
\* The coroutines of AzureBlobStorageHandler a caller can start.
Ops == {"initialize", "upload_video", "close"}

\* A call that has been made and has not run yet.
NewCall(op) == [op |-> op, pc |-> "start", client |-> 0, uploads |-> 0]

\* video_handler.py:98-101, with the account URL of the environment.
InitBlob ==
  /\ account_url \in BOOLEAN
  /\ blob_service_client = 0
  /\ clients_created = 0
  /\ client_closes = <<>>
  /\ calls = <<>>
  /\ ChatIdle
  /\ UploadIdle

\* A caller starts initialize(), upload_video() or close() on the handler.
StartCall ==
  /\ Len(calls) < MaxCalls
  /\ \E op \in Ops : calls' = Append(calls, NewCall(op))
  /\ UNCHANGED << chatVars, uploadVars, account_url, blob_service_client,
                  clients_created, client_closes >>

\* The call after initialize() has finished: initialize() itself returns, and
\* upload_video goes on to video_handler.py:152-164, where it takes a blob
\* client from self.blob_service_client and invokes upload_blob.
AfterInitialize(call, client) ==
  IF call.op = "initialize"
    THEN [call EXCEPT !.pc = "returned"]
    ELSE [call EXCEPT !.pc = "uploading", !.client = client, !.uploads = @ + 1]

\* video_handler.py:103-126, initialize() up to its first await, run by an
\* initialize() call or by upload_video when it finds no client
\* (video_handler.py:149-150): without an account URL it raises ValueError,
\* else it makes a new BlobServiceClient, stores it and awaits
\* container_client.exists().
InitializeSync ==
  \E i \in 1..Len(calls) :
    /\ calls[i].pc = "start"
    /\ \/ calls[i].op = "initialize"
       \/ calls[i].op = "upload_video" /\ blob_service_client = 0
    /\ IF ~account_url
         THEN /\ calls' = [calls EXCEPT ![i].pc = "raised"]
              /\ UNCHANGED << blob_service_client, clients_created, client_closes >>
         ELSE /\ clients_created' = clients_created + 1
              /\ blob_service_client' = clients_created + 1
              /\ client_closes' = Append(client_closes, 0)
              /\ calls' = [calls EXCEPT ![i].pc = "exists",
                                        ![i].client = clients_created + 1]
    /\ UNCHANGED << chatVars, uploadVars, account_url >>

\* video_handler.py:126-130, container_client.exists() returns or raises; an
\* absent container is created, an exception is logged and dropped.
ExistsReturn ==
  \E i \in 1..Len(calls) :
    /\ calls[i].pc = "exists"
    /\ \E r \in {"exists", "absent", "raises"} :
         calls' = [calls EXCEPT ![i] =
                     IF r = "absent" THEN [@ EXCEPT !.pc = "creating"]
                     ELSE AfterInitialize(@, blob_service_client)]
    /\ UNCHANGED << chatVars, uploadVars, account_url, blob_service_client,
                    clients_created, client_closes >>

\* video_handler.py:127-130, create_container() returns or raises; an
\* exception is logged and dropped.
CreateReturn ==
  \E i \in 1..Len(calls) :
    /\ calls[i].pc = "creating"
    /\ calls' = [calls EXCEPT ![i] = AfterInitialize(@, blob_service_client)]
    /\ UNCHANGED << chatVars, uploadVars, account_url, blob_service_client,
                    clients_created, client_closes >>

\* video_handler.py:149-171, upload_video finds a client: it names the blob
\* and invokes upload_blob.
UploadBegin ==
  \E i \in 1..Len(calls) :
    /\ calls[i].pc = "start"
    /\ calls[i].op = "upload_video"
    /\ blob_service_client # 0
    /\ calls' = [calls EXCEPT ![i].pc = "uploading",
                              ![i].client = blob_service_client,
                              ![i].uploads = @ + 1]
    /\ UNCHANGED << chatVars, uploadVars, account_url, blob_service_client,
                    clients_created, client_closes >>

\* video_handler.py:164-178, upload_blob returns and the URL is returned, or
\* it raises and the exception is logged and raised again.
UploadReturn ==
  \E i \in 1..Len(calls) :
    /\ calls[i].pc = "uploading"
    /\ \E ok \in BOOLEAN :
         calls' = [calls EXCEPT ![i].pc = IF ok THEN "returned" ELSE "raised"]
    /\ UNCHANGED << chatVars, uploadVars, account_url, blob_service_client,
                    clients_created, client_closes >>

\* video_handler.py:180-183, close(): with a client, its close() is invoked
\* and awaited; without one nothing is done. The client stays stored.
CloseBegin ==
  \E i \in 1..Len(calls) :
    /\ calls[i].pc = "start"
    /\ calls[i].op = "close"
    /\ IF blob_service_client # 0
         THEN /\ client_closes' =
                   [client_closes EXCEPT ![blob_service_client] = @ + 1]
              /\ calls' = [calls EXCEPT ![i].pc = "closing",
                                        ![i].client = blob_service_client]
         ELSE /\ client_closes' = client_closes
              /\ calls' = [calls EXCEPT ![i].pc = "returned"]
    /\ UNCHANGED << chatVars, uploadVars, account_url, blob_service_client,
                    clients_created >>

\* video_handler.py:183, the client's close() returns.
CloseReturn ==
  \E i \in 1..Len(calls) :
    /\ calls[i].pc = "closing"
    /\ calls' = [calls EXCEPT ![i].pc = "returned"]
    /\ UNCHANGED << chatVars, uploadVars, account_url, blob_service_client,
                    clients_created, client_closes >>

NextBlob ==
  \/ StartCall
  \/ InitializeSync
  \/ ExistsReturn
  \/ CreateReturn
  \/ UploadBegin
  \/ UploadReturn
  \/ CloseBegin
  \/ CloseReturn

SpecBlob == InitBlob /\ [][NextBlob]_vars

\* ------------------------------------- properties of the blob storage handler
RECURSIVE SumSeq(_)
SumSeq(q) == IF q = <<>> THEN 0 ELSE q[1] + SumSeq(Tail(q))

CallsOf(op) == {i \in 1..Len(calls) : calls[i].op = op}

\* C12 as stated: over any calls of initialize() and upload_video() on one
\* handler, interleaved at their awaits, the BlobServiceClient is made at most
\* once.
C12_ClientCreatedAtMostOnce == clients_created <= 1

\* C12, the part of it that holds: upload_video() calls alone, however they
\* interleave, make one client at most.
C12_LazyInitCreatesOne ==
  CallsOf("initialize") = {} => clients_created <= 1

\* C13 as stated: over any close() calls on one handler the client's close is
\* invoked at most once in all, exactly once when a close() call found the
\* handler initialized, and a close() call on a handler without a client
\* does nothing and raises nothing.
C13_ClosedExactlyOnce ==
  /\ SumSeq(client_closes) <= 1
  /\ \A i \in CallsOf("close") :
       /\ calls[i].pc # "raised"
       /\ (calls[i].pc = "returned" /\ calls[i].client # 0) =>
            SumSeq(client_closes) = 1

\* C13, the part of it that holds: a close() call that finds no client
\* invokes nothing and returns, and one that finds a client invokes that
\* client's close once.
C13_EachCloseInvokesOnce ==
  /\ SumSeq(client_closes) =
       Cardinality({i \in CallsOf("close") : calls[i].client # 0})
  /\ \A i \in CallsOf("close") : calls[i].pc # "raised"

\* C14, the part of it about upload_video(): a call invokes upload_blob at
\* most once.
C14_UploadVideoInvokesOnce ==
  \A i \in CallsOf("upload_video") : calls[i].uploads <= 1

\* ------------------------------------ properties of the upload's side effects
\* The durable-store upload of the request was started and has raised.
BlobFailed == blob_calls >= 1 /\ blob_url = None /\ upl_pc # "blob_uploading"

\* C14: a failing blob upload is never retried: the handler calls
\* upload_video() at most once per request and upload_blob is invoked at most
\* once per call; when the upload raised, the request is answered 500 with
\* the failure and nothing else is done, and no request whose upload raised is
\* answered with a success.
C14_BlobUploadNeverRetried ==
  /\ blob_calls <= 1
  /\ blob_uploads <= blob_calls
  /\ BlobFailed =>
       /\ upl_pc = "responded"
       /\ response = [status |-> 500, error |-> "upload_blob"]
       /\ ~temp_created
  /\ response.status = 200 => (storage_on => blob_url # None)

\* C14 witness: an upload within the ceiling reached the store, the store's
\* upload raised and the request was answered 500.
C14_Witness ==
  /\ BlobFailed
  /\ blob_uploads = 1
  /\ Len(file_bytes) > chunk_size
  /\ response.status = 500

\* The finally clause of chat.py:159-164 has run.
CleanedUp == upl_pc = "responded" /\ unlink_attempts >= 1

\* C17: a failure to delete the temporary file is never escalated: once the
\* cleanup has run, the response is the one the extraction's outcome calls
\* for (500 with the exception's message, 422 for no frames, 200 with the
\* frames), whether or not the file is still there.
C17_UnlinkFailureNotEscalated ==
  CleanedUp =>
    /\ worker.exc # None => response = [status |-> 500, error |-> worker.exc]
    /\ (worker.exc = None /\ worker.frames = <<>>) =>
         response = [status |-> 422,
                     error |-> "No frames could be extracted from video"]
    /\ (worker.exc = None /\ worker.frames # <<>>) =>
         /\ response.status = 200
         /\ response.frames = worker.frames
         /\ response.frame_count = Len(worker.frames)

\* C17 witness: the extraction returned frames, the deletion raised (the
\* file is still there) and the request was answered 200.
C17_Witness ==
  /\ CleanedUp
  /\ temp_exists
  /\ response.status = 200
  /\ Len(response.frames) >= 2

\* The guard of chat.py:102-113 rejects the request: no file, or a filename
\* whose lower-cased extension is not .mp4.
RejectedByGuard == ~has_video \/ filename \notin {"clip.mp4", "clip.MP4"}

\* C18: an upload rejected by the guard has no side effects: a request with
\* no file or a wrong extension is answered 400 before any chunk is read, a
\* request whose bytes exceed the ceiling is answered 413, and in all three
\* cases no blob upload was started and no temporary file was created.
C18_RejectedUploadNoSideEffects ==
  /\ (upl_pc # "start" /\ RejectedByGuard) => response.status = 400
  /\ response.status = 400 =>
       /\ RejectedByGuard
       /\ chunk_reads = 0
       /\ stream_pos = 0
       /\ file_bytes = <<>>
  /\ total_size > max_size_bytes => response.status = 413
  /\ response.status = 413 => total_size > max_size_bytes
  /\ response.status \in {400, 413} =>
       /\ upl_pc = "responded"
       /\ blob_calls = 0
       /\ blob_uploads = 0
       /\ blob_url = None
       /\ ~temp_created
       /\ temp_content = <<>>
       /\ unlink_attempts = 0

\* C18 witness: with the store configured, a file of another extension that
\* carries bytes was answered 400.
C18_Witness ==
  /\ response.status = 400
  /\ filename = "clip.avi"
  /\ storage_on
  /\ payload > chunk_size

\* C18, the 413 case reached: with the store configured, an upload was
\* answered 413 after several chunks.
C18_TooLargeCase ==
  /\ response.status = 413
  /\ storage_on
  /\ chunk_reads >= 2

\* The temporary file has been written and closed (chat.py:140-142).
TempWritten ==
  upl_pc \in {"extract", "extracting", "worker_done"} \/ CleanedUp

\* C19: the temporary file handed to the sampler holds the complete buffered
\* upload, byte for byte from offset 0: all bytes of the request, in order,
\* whether or not the store's upload read the buffer first.
C19_TempFileHoldsWholeUpload ==
  TempWritten =>
    /\ temp_content = file_bytes
    /\ temp_content = Bytes(0, payload)
    /\ Len(temp_content) = total_size

\* C19 witness: the store's upload ran first and read the buffer, and the
\* temporary file handed to the sampler holds an upload of several chunks.
C19_Witness ==
  /\ upl_pc = "extracting"
  /\ blob_url # None
  /\ blob_uploads = 1
  /\ Len(temp_content) > chunk_size

\* ============================ a chat request and an upload served together
\* A slip of extract_frames: _extract_frames_sync called on the loop's thread.
NotOffloaded == FALSE

\* video_handler.py:46-47, extract_frames hands _extract_frames_sync to
\* loop.run_in_executor and awaits the future.
Offloaded == TRUE

\* The event loop's thread is free to run a handler's step: it always is
\* between the steps of handlers, and it is not while it runs the extraction
\* itself.
LoopAvailable == Offloaded \/ upl_pc # "extracting"

\* One chat request with a text turn and one .mp4 upload of a single chunk
\* arrive at the application; the store is configured or not.
InitServe ==
  /\ request_messages = Messages(1)
  /\ image = None
  /\ frames = <<>>
  /\ max_frames = DefaultMaxFrames
  /\ all_messages = <<>>
  /\ events = <<>>
  /\ upstream_exc = None
  /\ out = <<>>
  /\ chat_pc = "start"
  /\ has_video = TRUE
  /\ filename = "clip.mp4"
  /\ payload = chunk_size
  /\ storage_on \in BOOLEAN
  /\ fps = 1
  /\ stream_pos = 0
  /\ chunk = 0
  /\ total_size = 0
  /\ file_bytes = <<>>
  /\ file_pos = 0
  /\ chunk_reads = 0
  /\ blob_calls = 0
  /\ blob_uploads = 0
  /\ blob_url = None
  /\ temp_created = FALSE
  /\ temp_content = <<>>
  /\ unlink_attempts = 0
  /\ temp_exists = FALSE
  /\ video = NoVideo
  /\ worker = NoOutcome
  /\ response = NoResponse
  /\ upl_pc = "start"
  /\ BlobIdle

\* A step of the chat request's generator, run by the event loop.
ServeChat == LoopAvailable /\ NextChat

\* A step of the upload request: of its handler, run by the event loop, or of
\* the extraction.
ServeUpload == NextUpload

NextServe ==
  \/ ServeChat
  \/ ServeUpload

SpecServe == InitServe /\ [][NextServe]_vars

\* ------------------------------------------- properties of the two together
\* C16: while the upload's extraction is in progress its handler is
\* suspended (it cannot resume and has not answered), and the loop can take
\* the chat stream's steps: whatever step the generator is at is enabled as
\* it is without the upload, so an event can be pulled and its line emitted
\* before the extraction finishes; once the worker is done the handler
\* resumes and answers with the worker's frames or its exception.
C16_ExtractionOffLoop ==
  /\ upl_pc = "extracting" =>
       /\ ~ENABLED ExtractResume
       /\ response = NoResponse
       /\ worker = NoOutcome
       /\ ENABLED ServeChat <=> ENABLED NextChat
       /\ (chat_pc = "iter" /\ Len(events) < MaxEvents) =>
            ENABLED (LoopAvailable /\ PullEvent)
  /\ upl_pc = "worker_done" => ENABLED ExtractResume
  /\ (upl_pc = "responded" /\ worker # NoOutcome) =>
       response = ResponseFor(ExtractFramesSync(video, fps), blob_url, filename)

\* C16 witness: the chat stream has emitted a line and is about to pull the
\* next event while the upload's extraction is in progress.
C16_Witness ==
  /\ upl_pc = "extracting"
  /\ chat_pc = "iter"
  /\ Len(out) >= 1
  /\ Len(events) < MaxEvents

====
